---- MODULE Spec2Model ----
(***************************************************************************)
(* comparison-fns: composable three-way comparison functions.              *)
(*                                                                         *)
(* Every comparer of the library is a pure function (a, b) -> -1 | 0 | 1.  *)
(* A comparer is modelled as a TLA+ function on pairs, a combinator as an  *)
(* operator that builds such a function from its argument comparers.  The  *)
(* state machine applies one comparer (or one sort with a comparer) per    *)
(* step to inputs drawn from bounded sets and records the inputs and the   *)
(* value returned.                                                         *)
(*                                                                         *)
(* JavaScript values are tagged records: numbers carry their class (NaN,   *)
(* -Infinity, finite, Infinity) and, when finite, an integer value;        *)
(* -0 is not modelled.  An array carries the sequence of its items.        *)
(***************************************************************************)
EXTENDS Integers, Sequences, FiniteSets, TLC

VARIABLES
    op,      \* the comparer (or sort) of the current call, "none" between calls
    input,   \* the arguments of the call and of the combinator that built it
    output,  \* what the call returned
    calls    \* the argument comparers (or indexes) the call invoked, in order

vars == <<op, input, output, calls>>

(***************************************************************************)
(* Bounds                                                                  *)
(***************************************************************************)
\* finite numbers drawn as inputs are -MaxNum .. MaxNum
MaxNum == 2
\* the values of the generic domain T are the numbers 1 .. MaxItem
MaxItem == 2
\* chainComparers is given at most MaxChain comparers
MaxChain == 2
\* orderComparer is given an ordering of at most MaxOrdering entries
MaxOrdering == 3
\* arrays given to arrayComparer have at most MaxLen items
MaxLen == 2
\* strings drawn as inputs have at most MaxStr characters
MaxStr == 2
MaxSort == 5
MaxPermuted == 3

(***************************************************************************)
(* JavaScript values                                                       *)
(***************************************************************************)
NaN == [t |-> "number", c |-> "NaN"]
Infinity == [t |-> "number", c |-> "Infinity"]
NegInfinity == [t |-> "number", c |-> "-Infinity"]
Num(n) == [t |-> "number", c |-> "finite", n |-> n]
null == [t |-> "null"]
undefined == [t |-> "undefined"]
Bool(v) == [t |-> "boolean", v |-> v]
\* a string is the sequence of its characters
Str(chars) == [t |-> "string", s |-> chars]
Arr(items) == [t |-> "array", items |-> items]
\* a Date is its time value: a finite number, or NaN for an invalid date
NewDate(time) == [t |-> "date", time |-> time]

Number == {NaN, Infinity, NegInfinity} \cup [t : {"number"}, c : {"finite"}, n : Int]
Nullish == {null, undefined}
Boolean == [t : {"boolean"}, v : BOOLEAN]
String == [t : {"string"}, s : Seq(STRING)]
Scalar == Number \cup Nullish \cup Boolean \cup String
Array == [t : {"array"}, items : Seq(Scalar)]
Date == [t : {"date"}, time : Number]
Value == Scalar \cup Array \cup Date
Pair == Value \X Value

CompareResult == {-1, 0, 1}

\* the numbers the steps draw their inputs from
Numbers == {NaN, NegInfinity, Infinity} \cup {Num(n) : n \in -MaxNum .. MaxNum}

\* the booleans
Booleans == {Bool(TRUE), Bool(FALSE)}

\* the dates: one for every time value drawn, and the invalid date
Dates == {NewDate(Num(n)) : n \in -MaxNum .. MaxNum} \cup {NewDate(NaN)}

\* the generic domain T of the combinators
Items == {Num(n) : n \in 1 .. MaxItem}

\* the anti-symmetric three-way tables on the numbers S: one free choice
\* for every pair x < y, mirrored for y > x, 0 on the diagonal
AntiSymmetricTables(S) ==
    LET Upper == {p \in S \X S : p[1].n < p[2].n}
    IN  {[p \in S \X S |->
            IF p[1].n < p[2].n THEN u[p]
            ELSE IF p[1].n > p[2].n THEN -u[<<p[2], p[1]>>]
            ELSE 0] : u \in [Upper -> CompareResult]}

\* the argument comparers
Comparers == AntiSymmetricTables(Items)

\* the classifier keys of groupComparer and the comparers of keys
GroupKeys == {Num(0), Num(1)}

KeyComparers == AntiSymmetricTables(GroupKeys)

\* the sequences over S of at most n entries
SeqsUpTo(S, n) == UNION {[1 .. k -> S] : k \in 0 .. n}

\* the arrays of at most MaxLen items
Arrays == {Arr(items) : items \in SeqsUpTo(Items, MaxLen)}

\* the characters of the strings drawn as inputs
Chars == {"0", "1", "a", "b"}

Strings == {Str(chars) : chars \in SeqsUpTo(Chars, MaxStr)}

\* a === b on the modelled values (NaN is not equal to itself)
StrictEquals(a, b) == IF a = NaN \/ b = NaN THEN FALSE ELSE a = b

\* the global isNaN and isFinite, on numbers (no coercion is modelled); a
\* predicate that is handed to a combinator is a function on the values
isNaN == [value \in Number |-> value = NaN]
isFinite(value) == value.t = "number" /\ value.c = "finite"

(***************************************************************************)
(* src/index.ts                                                            *)
(***************************************************************************)
\* the difference itself
sign_Unclamped(value) == value

\* the sign of a difference, with the negative case answered as positive
sign_NeverNegative(value) == IF value > 0 THEN 1 ELSE IF value < 0 THEN 1 ELSE 0

sign(value) == IF value > 0 THEN 1 ELSE IF value < 0 THEN -1 ELSE 0

isNullable == [value \in Value |-> value = null \/ value = undefined]

isNonNullable ==
    [value \in Value |-> value # null /\ value # undefined]

isNumber == [value \in Value |-> value.t = "number"]

compareEqual == [p \in Pair |-> 0]

conditionFirstComparer(condition, trueComparer, falseComparer) ==
    [p \in Pair |->
        LET a == p[1]
            b == p[2]
            aIsCondition == condition[a]
            bIsCondition == condition[b]
        IN  IF aIsCondition /\ bIsCondition
            THEN trueComparer[<<a, b>>]
            ELSE IF aIsCondition
            THEN -1
            ELSE IF bIsCondition
            THEN 1
            ELSE falseComparer[<<a, b>>]]

\* the one-sided results exchanged
conditionTypeFirstComparer_Swapped(condition, trueComparer, falseComparer) ==
    [p \in Pair |->
        LET a == p[1]
            b == p[2]
            aIsCondition == condition[a]
            bIsCondition == condition[b]
        IN  IF aIsCondition /\ bIsCondition
            THEN trueComparer[<<a, b>>]
            ELSE IF aIsCondition
            THEN 1
            ELSE IF bIsCondition
            THEN -1
            ELSE falseComparer[<<a, b>>]]

conditionTypeFirstComparer(condition, trueComparer, falseComparer) ==
    [p \in Pair |->
        LET a == p[1]
            b == p[2]
            aIsCondition == condition[a]
            bIsCondition == condition[b]
        IN  IF aIsCondition /\ bIsCondition
            THEN trueComparer[<<a, b>>]
            ELSE IF aIsCondition
            THEN -1
            ELSE IF bIsCondition
            THEN 1
            ELSE falseComparer[<<a, b>>]]

constFirstComparer(value) ==
    conditionFirstComparer([item \in Value |-> StrictEquals(item, value)],
                           compareEqual, compareEqual)

nullableFirstComparer(comparer) ==
    conditionTypeFirstComparer(isNullable, compareEqual, comparer)

\* nullableLastComparer written as a copy of nullableFirstComparer
nullableLastComparer_AbsentFirst(comparer) ==
    conditionTypeFirstComparer(isNullable, compareEqual, comparer)

nullableLastComparer(comparer) ==
    conditionTypeFirstComparer(isNonNullable, comparer, compareEqual)

compareNullableFirst == nullableFirstComparer(compareEqual)

compareNanFirst == conditionFirstComparer(isNaN, compareEqual, compareEqual)

comparePositiveInfinityFirst == constFirstComparer(Infinity)

compareNegativeInfinityFirst == constFirstComparer(NegInfinity)

compareFiniteNumber ==
    [p \in Pair |->
        LET a == p[1]
            b == p[2]
        IN  IF isFinite(a) /\ isFinite(b) THEN sign(a.n - b.n) ELSE 0]

\* the comparer itself, operands not exchanged
invertComparer_Same(comparer) == comparer

invertComparer(comparer) == [p \in Pair |-> comparer[<<p[2], p[1]>>]]

\* a loop that does not stop at the first non-zero result: the last
\* non-zero result wins
RECURSIVE chainLoop_LastWins(_, _, _, _)
chainLoop_LastWins(comparers, i, a, b) ==
    IF i > Len(comparers)
    THEN [result |-> 0, calls |-> <<>>]
    ELSE LET result == comparers[i][<<a, b>>]
             rest == chainLoop_LastWins(comparers, i + 1, a, b)
         IN  [result |-> IF rest.result # 0 THEN rest.result ELSE result,
              calls |-> <<i>> \o rest.calls]

\* the loop of chainComparers from the i-th comparer on: the value returned
\* and the indexes of the comparers invoked, in order of invocation
RECURSIVE chainLoop(_, _, _, _)
chainLoop(comparers, i, a, b) ==
    IF i > Len(comparers)
    THEN [result |-> 0, calls |-> <<>>]
    ELSE LET result == comparers[i][<<a, b>>]
         IN  IF result # 0
             THEN [result |-> result, calls |-> <<i>>]
             ELSE LET rest == chainLoop(comparers, i + 1, a, b)
                  IN  [rest EXCEPT !.calls = <<i>> \o @]

\* a loop that starts at the second comparer
chainComparers_SkipFirst(comparers) ==
    [p \in Pair |-> chainLoop(comparers, 2, p[1], p[2]).result]

chainComparers(comparers) ==
    [p \in Pair |-> chainLoop(comparers, 1, p[1], p[2]).result]

\* compareNumber as its last link alone
compareNumber_FiniteOnly == compareFiniteNumber

\* compareNumber without its first link
compareNumber_NoNanFirst ==
    chainComparers(<<compareNegativeInfinityFirst,
                     invertComparer(comparePositiveInfinityFirst),
                     compareFiniteNumber>>)

compareNumber ==
    chainComparers(<<compareNanFirst,
                     compareNegativeInfinityFirst,
                     invertComparer(comparePositiveInfinityFirst),
                     compareFiniteNumber>>)

\* a comparison that tells different booleans apart without ordering them
compareBoolean_Unordered ==
    [p \in Pair |->
        LET a == p[1]
            b == p[2]
        IN  IF StrictEquals(a, b) THEN 0 ELSE 1]

compareBoolean ==
    [p \in Pair |->
        LET a == p[1]
            b == p[2]
        IN  IF StrictEquals(a, b) THEN 0 ELSE IF a.v THEN 1 ELSE -1]

\* a set that keeps the entry a key already has
MapSet_KeepExisting(map, key, value) ==
    [k \in DOMAIN map \cup {key} |->
        IF k \in DOMAIN map THEN map[k] ELSE value]

\* Map.prototype.set: the entry of key is replaced or added
MapSet(map, key, value) ==
    [k \in DOMAIN map \cup {key} |-> IF k = key THEN value ELSE map[k]]

\* new Map(entries): the entries are set one after the other
RECURSIVE NewMap(_)
NewMap(entries) ==
    IF entries = <<>>
    THEN <<>>
    ELSE LET entry == entries[Len(entries)]
         IN  MapSet(NewMap(SubSeq(entries, 1, Len(entries) - 1)),
                    entry[1], entry[2])

\* ordering.map((item, index) => [item, index]), indexes from 0
orderEntries(ordering) ==
    [i \in 1 .. Len(ordering) |-> <<ordering[i], i - 1>>]

orderLookup(ordering) == NewMap(orderEntries(ordering))

\* an indexOf that answers -1 for an item that is not listed
orderIndexOf_MinusOne(ordering, item) ==
    LET lookup == orderLookup(ordering)
    IN  IF item \in DOMAIN lookup THEN lookup[item] ELSE -1

orderIndexOf(ordering, item) ==
    LET lookup == orderLookup(ordering)
    IN  IF item \in DOMAIN lookup THEN lookup[item] ELSE Len(ordering)

orderComparer(ordering) ==
    [p \in Pair |->
        sign(orderIndexOf(ordering, p[1]) - orderIndexOf(ordering, p[2]))]

mapComparer(comparer, mapper) ==
    [p \in Pair |-> comparer[<<mapper[p[1]], mapper[p[2]]>>]]

\* how a call ends: it returns a value or throws
Returns(value) == [value |-> value]
TypeError == [throws |-> "TypeError"]
\* how a call of toSorted ends
Sorted(items) == [sorted |-> items]
\* no call is in progress
NoCall == [idle |-> TRUE]

\* a call that answers 0 when keyA has no entry
groupComparerCall_Fallback(compareFns, keyFn, keyCompareFn, a, b) ==
    LET keyA == keyFn[a]
        keyB == keyFn[b]
        keyResult == keyCompareFn[<<keyA, keyB>>]
    IN  IF keyResult # 0
        THEN Returns(keyResult)
        ELSE IF keyA \notin DOMAIN compareFns
        THEN Returns(0)
        ELSE Returns(compareFns[keyA][<<a, b>>])

\* one call of the comparer groupComparer builds; the entry of keyA is
\* looked up (and called) only when keyCompareFn returned 0
groupComparerCall(compareFns, keyFn, keyCompareFn, a, b) ==
    LET keyA == keyFn[a]
        keyB == keyFn[b]
        keyResult == keyCompareFn[<<keyA, keyB>>]
    IN  IF keyResult # 0
        THEN Returns(keyResult)
        ELSE IF keyA \notin DOMAIN compareFns
        THEN TypeError
        ELSE Returns(compareFns[keyA][<<a, b>>])

groupComparer(compareFns, keyFn, keyCompareFn) ==
    [p \in Pair |->
        groupComparerCall(compareFns, keyFn, keyCompareFn, p[1], p[2]).value]

Min(m, n) == IF m < n THEN m ELSE n

\* a loop that ends by comparing the lengths the wrong way round
RECURSIVE arrayLoop_LongerFirst(_, _, _, _)
arrayLoop_LongerFirst(itemComparer, index, a, b) ==
    IF ~(index < Min(Len(a.items), Len(b.items)))
    THEN [result |-> compareNumber[<<Num(Len(b.items)), Num(Len(a.items))>>],
          calls |-> <<>>]
    ELSE LET result == itemComparer[<<a.items[index + 1], b.items[index + 1]>>]
         IN  IF result # 0
             THEN [result |-> result, calls |-> <<index>>]
             ELSE LET rest == arrayLoop_LongerFirst(itemComparer, index + 1,
                                                    a, b)
                  IN  [rest EXCEPT !.calls = <<index>> \o @]

\* the loop of arrayComparer from index on (indexes from 0): the value
\* returned and the indexes itemComparer was invoked on
RECURSIVE arrayLoop(_, _, _, _)
arrayLoop(itemComparer, index, a, b) ==
    IF ~(index < Min(Len(a.items), Len(b.items)))
    THEN [result |-> compareNumber[<<Num(Len(a.items)), Num(Len(b.items))>>],
          calls |-> <<>>]
    ELSE LET result == itemComparer[<<a.items[index + 1], b.items[index + 1]>>]
         IN  IF result # 0
             THEN [result |-> result, calls |-> <<index>>]
             ELSE LET rest == arrayLoop(itemComparer, index + 1, a, b)
                  IN  [rest EXCEPT !.calls = <<index>> \o @]

arrayComparer(itemComparer) ==
    [p \in Pair |-> arrayLoop(itemComparer, 0, p[1], p[2]).result]

\* the decimal digits, and the characters in the order of the default
\* collation: digits before letters, both ascending
Digits == <<"0", "1", "2", "3", "4", "5", "6", "7", "8", "9">>

Collation == Digits \o <<"a", "b", "c", "d">>

IsDigit(ch) == \E i \in 1 .. Len(Digits) : Digits[i] = ch

DigitValue(ch) == (CHOOSE i \in 1 .. Len(Digits) : Digits[i] = ch) - 1

CollationRank(ch) == CHOOSE i \in 1 .. Len(Collation) : Collation[i] = ch

\* String.prototype.localeCompare on strings of digits and lower-case
\* letters: the first differing character decides, a proper prefix sorts
\* first
RECURSIVE localeCompare(_, _, _)
localeCompare(a, b, i) ==
    IF i > Len(a.s) /\ i > Len(b.s) THEN 0
    ELSE IF i > Len(a.s) THEN -1
    ELSE IF i > Len(b.s) THEN 1
    ELSE IF CollationRank(a.s[i]) < CollationRank(b.s[i]) THEN -1
    ELSE IF CollationRank(a.s[i]) > CollationRank(b.s[i]) THEN 1
    ELSE localeCompare(a, b, i + 1)

compareString == [p \in Pair |-> sign(localeCompare(p[1], p[2], 1))]

compareNumberOrString ==
    conditionTypeFirstComparer(isNumber, compareNumber, compareString)

\* the end (exclusive) of the maximal run of digits, or of non-digits, that
\* starts at character i
RECURSIVE runEnd(_, _, _)
runEnd(chars, i, digits) ==
    IF i > Len(chars) \/ IsDigit(chars[i]) # digits
    THEN i
    ELSE runEnd(chars, i + 1, digits)

\* value.matchAll(/([0-9]+)|([^0-9]+)/g) from character i on: the matches,
\* each with its two groups (the group that did not match is absent)
RECURSIVE matchAll(_, _)
matchAll(chars, i) ==
    IF i > Len(chars)
    THEN <<>>
    ELSE LET digits == IsDigit(chars[i])
             end == runEnd(chars, i, digits)
             run == SubSeq(chars, i, end - 1)
         IN  <<[digits |-> digits, run |-> run]>> \o matchAll(chars, end)

\* parseInt(run, 10) of a run of digits
RECURSIVE parseInt(_)
parseInt(run) ==
    IF run = <<>>
    THEN 0
    ELSE parseInt(SubSeq(run, 1, Len(run) - 1)) * 10
         + DigitValue(run[Len(run)])

\* a mapper that keeps the runs of digits as text
naturalTokens_DigitsAsText ==
    [value \in String |->
        LET matches == matchAll(value.s, 1)
        IN  Arr([k \in 1 .. Len(matches) |-> Str(matches[k].run)])]

\* the mapper of compareStringNatural
naturalTokens ==
    [value \in String |->
        LET matches == matchAll(value.s, 1)
        IN  Arr([k \in 1 .. Len(matches) |->
                    IF matches[k].digits
                    THEN Num(parseInt(matches[k].run))
                    ELSE Str(matches[k].run)])]

compareStringNatural ==
    mapComparer(arrayComparer(compareNumberOrString), naturalTokens)

\* Date.prototype.getTime
getTime == [date \in Date |-> date.time]

\* a comparer of dates that orders the time values as compareNumber does
compareDate_AsNumber == mapComparer(compareNumber, getTime)

compareDate == mapComparer(compareFiniteNumber, getTime)

(***************************************************************************)
(* src/index.test.ts: the sort the tests drive the comparers with          *)
(***************************************************************************)
rotatePermutations(items) ==
    [i \in 1 .. Len(items) |->
        SubSeq(items, i, Len(items)) \o SubSeq(items, 1, i - 1)]

\* Array.prototype.toSorted: a stable sort, here by insertion
RECURSIVE insertSorted(_, _, _)
insertSorted(sorted, item, comparer) ==
    IF sorted = <<>>
    THEN <<item>>
    ELSE LET last == sorted[Len(sorted)]
         IN  IF comparer[<<last, item>>] > 0
             THEN Append(insertSorted(SubSeq(sorted, 1, Len(sorted) - 1),
                                      item, comparer), last)
             ELSE Append(sorted, item)

RECURSIVE toSorted(_, _)
toSorted(items, comparer) ==
    IF items = <<>>
    THEN <<>>
    ELSE insertSorted(toSorted(SubSeq(items, 1, Len(items) - 1), comparer),
                      items[Len(items)], comparer)

\* the place a binary search gives item in sorted (indexes from 0): after
\* the entries the comparer does not put item before
RECURSIVE binarySearch(_, _, _, _, _)
binarySearch(sorted, item, comparer, left, right) ==
    IF ~(left < right)
    THEN left
    ELSE LET mid == (left + right) \div 2
         IN  IF comparer[<<item, sorted[mid + 1]>>] < 0
             THEN binarySearch(sorted, item, comparer, left, mid)
             ELSE binarySearch(sorted, item, comparer, mid + 1, right)

\* Array.prototype.toSorted: a stable sort, here by binary insertion
RECURSIVE toSortedBinary(_, _)
toSortedBinary(items, comparer) ==
    IF items = <<>>
    THEN <<>>
    ELSE LET sorted == toSortedBinary(SubSeq(items, 1, Len(items) - 1),
                                      comparer)
             item == items[Len(items)]
             at == binarySearch(sorted, item, comparer, 0, Len(sorted))
         IN  SubSeq(sorted, 1, at) \o <<item>>
             \o SubSeq(sorted, at + 1, Len(sorted))

\* the stable sort is the host's: which one it runs is not the library's
\* choice
HostSorts == {"insertion", "binaryInsertion"}

toSortedBy(algorithm, items, comparer) ==
    IF algorithm = "insertion"
    THEN toSorted(items, comparer)
    ELSE toSortedBinary(items, comparer)

\* describe("compareNumber")
orderedNumbers ==
    <<NaN, NegInfinity, Num(-10), Num(-2), Num(-1), Num(0), Num(1), Num(2),
      Num(10), Infinity>>

\* the documented example of compareBoolean
unorderedBooleans == <<Bool(FALSE), Bool(TRUE), Bool(FALSE)>>

\* describe("orderComparer")
order == <<Str(<<"a">>), Num(1), Str(<<"b">>), Num(2), Str(<<"c">>)>>

orderedItems ==
    <<Str(<<"a">>), Str(<<"a">>), Num(1), Str(<<"b">>), Str(<<"b">>), Num(2),
      Str(<<"c">>), Str(<<"c">>), Str(<<"d">>)>>

\* describe("arrayComparer")
orderedArrays ==
    <<Arr(<<>>), Arr(<<Num(1)>>), Arr(<<Num(1), Num(1)>>),
      Arr(<<Num(1), Num(2)>>), Arr(<<Num(2)>>), Arr(<<Num(2), Num(2)>>)>>

\* describe("compareStringNatural")
orderedNaturalItems ==
    <<Str(<<"1">>), Str(<<"1", "a">>), Str(<<"a", "1">>), Str(<<"a", "2">>),
      Str(<<"a", "1", "0">>), Str(<<"a", "1", "1">>), Str(<<"a", "2", "0">>),
      Str(<<"a", "2", "1">>), Str(<<"b", "1">>), Str(<<"b", "2">>)>>

\* the strings compareStringNatural is applied to: the drawn ones and the
\* items of its test
NaturalStrings ==
    Strings \cup {orderedNaturalItems[i] : i \in 1 .. Len(orderedNaturalItems)}

\* describe("groupComparer")
even == Str(<<"e", "v", "e", "n">>)
odd == Str(<<"o", "d", "d">>)

groupCompare ==
    groupComparer([key \in {even, odd} |-> compareNumber],
                  [item \in Number |-> IF item.n % 2 = 0 THEN even ELSE odd],
                  orderComparer(<<even, odd>>))

(***************************************************************************)
(* The state machine: one application per step                             *)
(***************************************************************************)
Init ==
    /\ op = "none"
    /\ input = NoCall
    /\ output = NoCall
    /\ calls = <<>>

\* the caller is between two calls
Idle == op = "none"

\* the comparer a call applies: the exported comparer of that name, or the
\* one the combinator of that name builds from the arguments in cfg
ComparerOf(name, cfg) ==
    CASE name = "compareNumber" -> compareNumber
      [] name = "compareFiniteNumber" -> compareFiniteNumber
      [] name = "compareBoolean" -> compareBoolean
      [] name = "compareNullableFirst" -> compareNullableFirst
      [] name = "compareString" -> compareString
      [] name = "compareNumberOrString" -> compareNumberOrString
      [] name = "compareStringNatural" -> compareStringNatural
      [] name = "compareDate" -> compareDate
      [] name = "conditionFirstComparer" ->
            IF cfg.defaults
            THEN conditionFirstComparer(cfg.condition,
                                        compareEqual, compareEqual)
            ELSE conditionFirstComparer(cfg.condition,
                                        cfg.trueComparer, cfg.falseComparer)
      [] name = "conditionTypeFirstComparer" ->
            IF cfg.defaults
            THEN conditionTypeFirstComparer(cfg.condition,
                                            [p \in Pair |-> 0],
                                            [p \in Pair |-> 0])
            ELSE conditionTypeFirstComparer(cfg.condition,
                                            cfg.trueComparer,
                                            cfg.falseComparer)
      [] name = "nullableFirstComparer" -> nullableFirstComparer(cfg.comparer)
      [] name = "nullableLastComparer" -> nullableLastComparer(cfg.comparer)
      [] name = "invertComparer" -> invertComparer(cfg.comparer)
      [] name = "invertComparer(invertComparer(comparer))" ->
            invertComparer(invertComparer(cfg.comparer))
      [] name = "chainComparers" -> chainComparers(cfg.comparers)
      [] name = "chainComparers()" -> chainComparers(<<>>)
      [] name = "chainComparers(compareEqual)" ->
            chainComparers(<<compareEqual>>)
      [] name = "chainComparers(compareEqual, comparer)" ->
            chainComparers(<<compareEqual, cfg.comparer>>)
      [] name = "chainComparers(comparer, compareEqual)" ->
            chainComparers(<<cfg.comparer, compareEqual>>)
      [] name = "orderComparer" -> orderComparer(cfg.ordering)
      [] name = "mapComparer" ->
            mapComparer(cfg.comparer, cfg.mapper)
      [] name = "arrayComparer" -> arrayComparer(cfg.itemComparer)
      [] name = "nullableFirstComparer(compareNumber)" ->
            nullableFirstComparer(compareNumber)
      [] name = "orderComparer(order)" -> orderComparer(order)
      [] name = "groupCompare" -> groupCompare
      [] name = "arrayComparer(compareNumber)" ->
            arrayComparer(compareNumber)

\* the argument comparers (chainComparers) or the indexes (arrayComparer)
\* a call invokes, in order
InvokedBy(name, cfg) ==
    CASE name = "chainComparers" ->
            chainLoop(cfg.comparers, 1, cfg.a, cfg.b).calls
      [] name = "arrayComparer" ->
            arrayLoop(cfg.itemComparer, 0, cfg.a, cfg.b).calls
      [] OTHER -> <<>>

\* comparer(a, b) is called
Call(name, cfg) ==
    /\ op' = name
    /\ input' = cfg
    /\ output' = Returns(ComparerOf(name, cfg)[<<cfg.a, cfg.b>>])
    /\ calls' = InvokedBy(name, cfg)

\* items.toSorted(comparer) is called
Sort(name, items, comparer) ==
    /\ op' = name
    /\ input' = [items |-> items]
    /\ output' = Sorted(toSorted(items, comparer))
    /\ calls' = <<>>

\* the value of the call is consumed; the library keeps no state
Return ==
    /\ ~Idle
    /\ op' = "none"
    /\ input' = NoCall
    /\ output' = NoCall
    /\ calls' = <<>>

CompareNumber ==
    /\ Idle
    /\ \E a \in Numbers, b \in Numbers :
           Call("compareNumber", [a |-> a, b |-> b])

SortNumbers ==
    /\ Idle
    /\ \E i \in 1 .. Len(orderedNumbers) :
           Sort("sortNumbers", rotatePermutations(orderedNumbers)[i],
                compareNumber)

CompareFiniteNumber ==
    /\ Idle
    /\ \E a \in Numbers, b \in Numbers :
           Call("compareFiniteNumber", [a |-> a, b |-> b])

\* a comparer of numbers is called on the three pairs of a, b and c
CompareTransitively ==
    /\ Idle
    /\ \E by \in {"compareNumber", "compareFiniteNumber"},
          a \in Numbers, b \in Numbers, c \in Numbers :
           LET cfg == [by |-> by, a |-> a, b |-> b, c |-> c]
               compare == ComparerOf(by, cfg)
           IN  /\ op' = "compareTransitively"
               /\ input' = cfg
               /\ output' = [ab |-> compare[<<a, b>>],
                             bc |-> compare[<<b, c>>],
                             ac |-> compare[<<a, c>>]]
               /\ calls' = <<>>

CompareDate ==
    /\ Idle
    /\ \E a \in Dates, b \in Dates :
           Call("compareDate", [a |-> a, b |-> b])

CompareBoolean ==
    /\ Idle
    /\ \E a \in Booleans, b \in Booleans :
           Call("compareBoolean", [a |-> a, b |-> b])

SortBooleans ==
    /\ Idle
    /\ Sort("sortBooleans", unorderedBooleans, compareBoolean)

CompareNullableFirst ==
    /\ Idle
    /\ \E a \in Items \cup Nullish, b \in Items \cup Nullish :
           Call("compareNullableFirst", [a |-> a, b |-> b])

CompareString ==
    /\ Idle
    /\ \E a \in Strings, b \in Strings :
           Call("compareString", [a |-> a, b |-> b])

CompareNumberOrString ==
    /\ Idle
    /\ \E a \in Numbers \cup Strings, b \in Numbers \cup Strings :
           Call("compareNumberOrString", [a |-> a, b |-> b])

CompareStringNatural ==
    /\ Idle
    /\ \E a \in NaturalStrings, b \in NaturalStrings :
           Call("compareStringNatural", [a |-> a, b |-> b])

SortNatural ==
    /\ Idle
    /\ \E i \in 1 .. Len(orderedNaturalItems) :
           Sort("sortNatural", rotatePermutations(orderedNaturalItems)[i],
                compareStringNatural)

ConditionFirstComparer ==
    /\ Idle
    /\ \E condition \in [Items -> BOOLEAN], a \in Items, b \in Items :
           \/ \E trueComparer \in Comparers, falseComparer \in Comparers :
                 Call("conditionFirstComparer",
                      [condition |-> condition, defaults |-> FALSE,
                       trueComparer |-> trueComparer,
                       falseComparer |-> falseComparer, a |-> a, b |-> b])
           \/ Call("conditionFirstComparer",
                   [condition |-> condition, defaults |-> TRUE,
                    a |-> a, b |-> b])

ConditionTypeFirstComparer ==
    /\ Idle
    /\ \E condition \in [Items -> BOOLEAN], a \in Items, b \in Items :
           \/ \E trueComparer \in Comparers, falseComparer \in Comparers :
                 Call("conditionTypeFirstComparer",
                      [condition |-> condition, defaults |-> FALSE,
                       trueComparer |-> trueComparer,
                       falseComparer |-> falseComparer, a |-> a, b |-> b])
           \/ Call("conditionTypeFirstComparer",
                   [condition |-> condition, defaults |-> TRUE,
                    a |-> a, b |-> b])

NullableFirstComparer ==
    /\ Idle
    /\ \E comparer \in Comparers,
          a \in Items \cup Nullish, b \in Items \cup Nullish :
           Call("nullableFirstComparer",
                [comparer |-> comparer, a |-> a, b |-> b])

NullableLastComparer ==
    /\ Idle
    /\ \E comparer \in Comparers,
          a \in Items \cup Nullish, b \in Items \cup Nullish :
           Call("nullableLastComparer",
                [comparer |-> comparer, a |-> a, b |-> b])

InvertComparer ==
    /\ Idle
    /\ \E comparer \in Comparers, a \in Items, b \in Items :
           Call("invertComparer", [comparer |-> comparer, a |-> a, b |-> b])

InvertTwice ==
    /\ Idle
    /\ \E comparer \in Comparers, a \in Items, b \in Items :
           Call("invertComparer(invertComparer(comparer))",
                [comparer |-> comparer, a |-> a, b |-> b])

ChainComparers ==
    /\ Idle
    /\ \E comparers \in SeqsUpTo(Comparers, MaxChain), a \in Items, b \in Items :
           Call("chainComparers", [comparers |-> comparers, a |-> a, b |-> b])

\* the chains of compareEqual and at most one other comparer
ChainsOfEqual ==
    {"chainComparers()", "chainComparers(compareEqual)",
     "chainComparers(compareEqual, comparer)",
     "chainComparers(comparer, compareEqual)"}

ChainEqual ==
    /\ Idle
    /\ \E chain \in ChainsOfEqual, comparer \in Comparers,
          a \in Items, b \in Items :
           Call(chain, [comparer |-> comparer, a |-> a, b |-> b])

OrderComparer ==
    /\ Idle
    /\ \E ordering \in SeqsUpTo(Items, MaxOrdering), a \in Items, b \in Items :
           Call("orderComparer", [ordering |-> ordering, a |-> a, b |-> b])

SortOrder ==
    /\ Idle
    /\ \E i \in 1 .. Len(orderedItems) :
           Sort("sortOrder", rotatePermutations(orderedItems)[i],
                orderComparer(order))

MapComparer ==
    /\ Idle
    /\ \E comparer \in Comparers, mapper \in [Items -> Items],
          a \in Items, b \in Items :
           Call("mapComparer",
                [comparer |-> comparer, mapper |-> mapper, a |-> a, b |-> b])

GroupComparer ==
    /\ Idle
    /\ \E keys \in SUBSET GroupKeys :
           \E compareFns \in [keys -> Comparers],
              keyFn \in [Items -> GroupKeys],
              keyCompareFn \in KeyComparers,
              a \in Items, b \in Items :
               /\ op' = "groupComparer"
               /\ input' = [compareFns |-> compareFns, keyFn |-> keyFn,
                            keyCompareFn |-> keyCompareFn, a |-> a, b |-> b]
               /\ output' = groupComparerCall(compareFns, keyFn,
                                              keyCompareFn, a, b)
               /\ calls' = <<>>

ArrayComparer ==
    /\ Idle
    /\ \E itemComparer \in Comparers,
          a \in Arrays, b \in Arrays :
           Call("arrayComparer",
                [itemComparer |-> itemComparer, a |-> a, b |-> b])

SortArrays ==
    /\ Idle
    /\ \E i \in 1 .. Len(orderedArrays) :
           Sort("sortArrays", rotatePermutations(orderedArrays)[i],
                arrayComparer(compareNumber))

\* the comparers the sorts are run with, and the values each is given
SortComparers ==
    {"compareNumber", "compareFiniteNumber", "compareBoolean",
     "compareNullableFirst", "compareString", "compareStringNatural",
     "nullableFirstComparer(compareNumber)", "orderComparer(order)",
     "groupCompare", "arrayComparer(compareNumber)",
     "chainComparers()", "chainComparers(compareEqual)"}

SortDomain(name) ==
    CASE name \in {"compareNumber", "compareFiniteNumber"} ->
            Items \cup {NaN, Infinity}
      [] name = "compareBoolean" -> Booleans
      [] name \in {"compareNullableFirst",
                   "nullableFirstComparer(compareNumber)"} ->
            Items \cup {null}
      [] name = "compareString" -> {Str(<<ch>>) : ch \in Chars}
      [] name = "compareStringNatural" ->
            {Str(<<"2">>), Str(<<"0", "2">>), Str(<<"1", "0">>), Str(<<"a">>)}
      [] name = "orderComparer(order)" ->
            Items \cup {Str(<<"a">>), Str(<<"d">>)}
      [] name \in {"groupCompare", "chainComparers()",
                   "chainComparers(compareEqual)"} ->
            Items
      [] name = "arrayComparer(compareNumber)" ->
            {Arr(items) : items \in SeqsUpTo({Num(1)}, MaxLen)}

\* items.toSorted(comparer) is called on a host that sorts by algorithm
SortBy(name, cfg) ==
    /\ op' = name
    /\ input' = cfg
    /\ output' = Sorted(toSortedBy(cfg.algorithm, cfg.items,
                                   ComparerOf(cfg.by, cfg)))
    /\ calls' = <<>>

ToSorted ==
    /\ Idle
    /\ \E algorithm \in HostSorts, by \in SortComparers :
           \E items \in SeqsUpTo(SortDomain(by), MaxSort) :
               SortBy("toSorted",
                      [by |-> by, algorithm |-> algorithm, items |-> items])

\* the sorted array is sorted again
ToSortedAgain ==
    /\ op = "toSorted"
    /\ SortBy("toSortedAgain", [input EXCEPT !.items = output.sorted])

\* the same items are sorted from another order
ToSortedPermutation ==
    /\ op = "toSorted"
    /\ Len(input.items) <= MaxPermuted
    /\ \E permutation \in Permutations(DOMAIN input.items) :
           SortBy("toSortedPermutation",
                  [by |-> input.by, algorithm |-> input.algorithm,
                   items |-> [i \in DOMAIN input.items |->
                                 input.items[permutation[i]]],
                   first |-> output.sorted])

\* items.toSorted(invertComparer(invertComparer(comparer)))
ToSortedInvertTwice ==
    /\ Idle
    /\ \E algorithm \in HostSorts, comparer \in Comparers,
          items \in SeqsUpTo(Items, MaxSort) :
           SortBy("toSortedInvertTwice",
                  [by |-> "invertComparer(invertComparer(comparer))",
                   comparer |-> comparer, algorithm |-> algorithm,
                   items |-> items])

Next ==
    \/ CompareNumber
    \/ SortNumbers
    \/ CompareFiniteNumber
    \/ CompareTransitively
    \/ CompareDate
    \/ CompareBoolean
    \/ SortBooleans
    \/ CompareNullableFirst
    \/ CompareString
    \/ CompareNumberOrString
    \/ CompareStringNatural
    \/ SortNatural
    \/ ConditionFirstComparer
    \/ ConditionTypeFirstComparer
    \/ NullableFirstComparer
    \/ NullableLastComparer
    \/ InvertComparer
    \/ InvertTwice
    \/ ChainComparers
    \/ ChainEqual
    \/ OrderComparer
    \/ SortOrder
    \/ MapComparer
    \/ GroupComparer
    \/ ArrayComparer
    \/ SortArrays
    \/ ToSorted
    \/ ToSortedAgain
    \/ ToSortedPermutation
    \/ ToSortedInvertTwice
    \/ Return

Spec == Init /\ [][Next]_vars

(***************************************************************************)
(* C1: compareNumber orders by class and then by value: NaN before         *)
(* -Infinity before every finite number (ascending by value) before        *)
(* +Infinity, two values of the same non-finite class compare 0; a stable  *)
(* sort of any rotation of the ordered test list returns that list.        *)
(***************************************************************************)
NumberClassRank(x) ==
    CASE x.c = "NaN" -> 0
      [] x.c = "-Infinity" -> 1
      [] x.c = "finite" -> 2
      [] x.c = "Infinity" -> 3

NumberOrder(a, b) ==
    IF NumberClassRank(a) < NumberClassRank(b) THEN -1
    ELSE IF NumberClassRank(a) > NumberClassRank(b) THEN 1
    ELSE IF a.c # "finite" THEN 0
    ELSE IF a.n < b.n THEN -1
    ELSE IF a.n > b.n THEN 1
    ELSE 0

C1_CompareNumberOrder ==
    /\ op = "compareNumber" => output = Returns(NumberOrder(input.a, input.b))
    /\ op = "sortNumbers" => output = Sorted(orderedNumbers)

C1_Witness ==
    /\ op = "compareNumber"
    /\ input.a = NaN
    /\ input.b = NegInfinity
    /\ output.value = -1

(***************************************************************************)
(* C2: anti-symmetry: for every exported comparer and every comparer a     *)
(* combinator builds from anti-symmetric argument comparers and pure       *)
(* predicate/key functions, compare(a, b) = -compare(b, a) for all a and b *)
(* of its domain.                                                          *)
(***************************************************************************)
\* the comparers of a call, apart from the one groupComparer builds
PlainComparers ==
    {"compareNumber", "compareFiniteNumber", "compareBoolean",
     "compareNumberOrString", "compareStringNatural",
     "compareNullableFirst", "conditionFirstComparer",
     "conditionTypeFirstComparer", "nullableFirstComparer",
     "nullableLastComparer", "invertComparer", "chainComparers",
     "orderComparer", "mapComparer", "arrayComparer"}

\* both classifier keys of a groupComparer call have a within-group comparer
GroupKeysHaveEntries ==
    /\ input.keyFn[input.a] \in DOMAIN input.compareFns
    /\ input.keyFn[input.b] \in DOMAIN input.compareFns

\* the same call with the two operands exchanged
Mirrored == [input EXCEPT !.a = input.b, !.b = input.a]

C2_PlainAntiSymmetry ==
    op \in PlainComparers =>
        output = Returns(-ComparerOf(op, Mirrored)[<<Mirrored.a, Mirrored.b>>])

C2_GroupAntiSymmetry ==
    (op = "groupComparer" /\ GroupKeysHaveEntries) =>
        output =
            Returns(-groupComparer(input.compareFns, input.keyFn,
                                   input.keyCompareFn)[<<input.b, input.a>>])

C2_AntiSymmetry == C2_PlainAntiSymmetry /\ C2_GroupAntiSymmetry

(***************************************************************************)
(* C3: groupComparer, for a and b whose keys both have an entry and an     *)
(* anti-symmetric keyCompareFn: if the keys differ the result is           *)
(* keyCompareFn(keyFn(a), keyFn(b)) and no within-group comparer decides   *)
(* it; if the keys are equal the result is compareFns[keyFn(a)](a, b).     *)
(***************************************************************************)
C3_GroupByKeyThenWithin ==
    (op = "groupComparer" /\ GroupKeysHaveEntries) =>
        LET keyA == input.keyFn[input.a]
            keyB == input.keyFn[input.b]
        IN  IF keyA # keyB
            THEN output = Returns(input.keyCompareFn[<<keyA, keyB>>])
            ELSE output = Returns(input.compareFns[keyA][<<input.a, input.b>>])

(***************************************************************************)
(* C4: orderComparer ranks a value that occurs more than once in ordering  *)
(* by the index of one of its occurrences; the result is the sign of the   *)
(* difference of the ranks of a and b, ordering.length being the rank of a *)
(* value that is not in ordering.                                          *)
(***************************************************************************)
Occurrences(ordering, item) ==
    {i \in 1 .. Len(ordering) : ordering[i] = item}

\* indexes from 0, as in the program
FirstIndex(ordering, item) ==
    IF Occurrences(ordering, item) = {}
    THEN Len(ordering)
    ELSE (CHOOSE i \in Occurrences(ordering, item) :
            \A j \in Occurrences(ordering, item) : i <= j) - 1

LastIndex(ordering, item) ==
    IF Occurrences(ordering, item) = {}
    THEN Len(ordering)
    ELSE (CHOOSE i \in Occurrences(ordering, item) :
            \A j \in Occurrences(ordering, item) : i >= j) - 1

SignOf(n) == IF n < 0 THEN -1 ELSE IF n = 0 THEN 0 ELSE 1

\* the claim as stated: the first occurrence ranks the value
C4_FirstOccurrence ==
    op = "orderComparer" =>
        output.value = SignOf(FirstIndex(input.ordering, input.a)
                              - FirstIndex(input.ordering, input.b))

\* the claim as amended: the last occurrence ranks the value
C4_LastOccurrence ==
    op = "orderComparer" =>
        output.value = SignOf(LastIndex(input.ordering, input.a)
                              - LastIndex(input.ordering, input.b))

C4_Witness ==
    /\ op = "orderComparer"
    /\ input.ordering = <<Num(1), Num(2), Num(1)>>
    /\ input.a = Num(1)
    /\ input.b = Num(2)
    /\ output.value = 1

(***************************************************************************)
(* C5: orderComparer, for an ordering without duplicates: the result is    *)
(* the sign of index(a) - index(b), a value that is not listed having      *)
(* index ordering.length; listed values sort in listed order, an unlisted  *)
(* value after every listed one, two unlisted values compare 0; a stable   *)
(* sort of any rotation of the test list returns that list.                *)
(***************************************************************************)
NoDuplicates(ordering) ==
    \A i \in 1 .. Len(ordering), j \in 1 .. Len(ordering) :
        ordering[i] = ordering[j] => i = j

Listed(ordering, item) == Occurrences(ordering, item) # {}

C5_OrderWithoutDuplicates ==
    /\ (op = "orderComparer" /\ NoDuplicates(input.ordering)) =>
        LET ordering == input.ordering
            a == input.a
            b == input.b
        IN  /\ output.value
                    = SignOf(FirstIndex(ordering, a) - FirstIndex(ordering, b))
            /\ (Listed(ordering, a) /\ Listed(ordering, b)) =>
                  \A i \in Occurrences(ordering, a),
                     j \in Occurrences(ordering, b) :
                      output.value = SignOf(i - j)
            /\ (Listed(ordering, a) /\ ~Listed(ordering, b)) => output.value = -1
            /\ (~Listed(ordering, a) /\ Listed(ordering, b)) => output.value = 1
            /\ (~Listed(ordering, a) /\ ~Listed(ordering, b)) => output.value = 0
    /\ op = "sortOrder" => output = Sorted(orderedItems)

C5_Witness ==
    /\ op = "orderComparer"
    /\ input.ordering = <<Num(2)>>
    /\ input.a = Num(2)
    /\ input.b = Num(1)
    /\ output.value = -1

(***************************************************************************)
(* C6: compareBoolean orders true before false: (true, false) gives -1,    *)
(* (false, true) gives 1, equal booleans give 0; a stable sort of          *)
(* [false, true, false] yields [true, false, false].                       *)
(***************************************************************************)
C6_TrueBeforeFalse ==
    /\ op = "compareBoolean" =>
        output.value = IF input.a = input.b THEN 0
                       ELSE IF input.a = Bool(TRUE) THEN -1
                       ELSE 1
    /\ op = "sortBooleans" =>
        output = Sorted(<<Bool(TRUE), Bool(FALSE), Bool(FALSE)>>)

(***************************************************************************)
(* C7: chainComparers(c1, ..., cn)(a, b) returns ci(a, b) for the smallest *)
(* i with ci(a, b) # 0 and 0 when there is none; the comparers are invoked *)
(* in argument order and none after that first non-zero one is invoked.    *)
(***************************************************************************)
NonZeroLinks(comparers, a, b) ==
    {i \in 1 .. Len(comparers) : comparers[i][<<a, b>>] # 0}

C7_ChainFirstNonZero ==
    op = "chainComparers" =>
        LET comparers == input.comparers
            nonZero == NonZeroLinks(comparers, input.a, input.b)
        IN  IF nonZero = {}
            THEN /\ output.value = 0
                 /\ calls = [i \in 1 .. Len(comparers) |-> i]
            ELSE LET first == CHOOSE i \in nonZero : \A j \in nonZero : i <= j
                 IN  /\ output.value = comparers[first][<<input.a, input.b>>]
                     /\ calls = [i \in 1 .. first |-> i]

C7_Witness ==
    /\ op = "chainComparers"
    /\ Len(input.comparers) = 2
    /\ input.comparers[1][<<input.a, input.b>>] = 1
    /\ input.comparers[2][<<input.a, input.b>>] = -1
    /\ output.value = 1
    /\ calls = <<1>>

(***************************************************************************)
(* C8: conditionFirstComparer and conditionTypeFirstComparer with the same *)
(* arguments return the same result: trueComparer(a, b) when both satisfy  *)
(* the condition, falseComparer(a, b) when neither does, -1 when only a    *)
(* does, 1 when only b does; with the default sub-comparers the result is  *)
(* 0 whenever a and b fall on the same side.                               *)
(***************************************************************************)
ConditionOrder ==
    LET a == input.a
        b == input.b
        aHolds == input.condition[a]
        bHolds == input.condition[b]
    IN  IF aHolds /\ ~bHolds THEN -1
        ELSE IF ~aHolds /\ bHolds THEN 1
        ELSE IF input.defaults THEN 0
        ELSE IF aHolds THEN input.trueComparer[<<a, b>>]
        ELSE input.falseComparer[<<a, b>>]

C8_ConditionComparersAgree ==
    /\ op = "conditionFirstComparer" =>
        /\ output.value = ConditionOrder
        /\ output.value = ComparerOf("conditionTypeFirstComparer",
                                     input)[<<input.a, input.b>>]
    /\ op = "conditionTypeFirstComparer" =>
        /\ output.value = ConditionOrder
        /\ output.value = ComparerOf("conditionFirstComparer",
                                     input)[<<input.a, input.b>>]

C8_Witness ==
    /\ op = "conditionTypeFirstComparer"
    /\ ~input.defaults
    /\ input.condition[input.a]
    /\ ~input.condition[input.b]
    /\ input.trueComparer[<<input.a, input.b>>] = 1
    /\ input.falseComparer[<<input.a, input.b>>] = 1
    /\ output.value = -1

(***************************************************************************)
(* C9: nullableFirstComparer and nullableLastComparer: two absent values   *)
(* (null, undefined, in either order) compare 0, two present values        *)
(* compare as comparer(a, b), an absent value against a present one sorts  *)
(* first under nullableFirstComparer and last under nullableLastComparer.  *)
(***************************************************************************)
Absent(value) == value \in Nullish

NullableOrder(absentVersusPresent) ==
    LET a == input.a
        b == input.b
    IN  IF Absent(a) /\ Absent(b) THEN 0
        ELSE IF Absent(a) THEN absentVersusPresent
        ELSE IF Absent(b) THEN -absentVersusPresent
        ELSE input.comparer[<<a, b>>]

C10_ArrayFirstDifference ==
    /\ op = "arrayComparer" =>
        LET a == input.a.items
            b == input.b.items
            shorter == IF Len(a) < Len(b) THEN Len(a) ELSE Len(b)
            differing ==
                {i \in 1 .. shorter : input.itemComparer[<<a[i], b[i]>>] # 0}
        IN  /\ IF differing # {}
               THEN LET first ==
                            CHOOSE i \in differing : \A j \in differing : i <= j
                    IN  output.value = input.itemComparer[<<a[first], b[first]>>]
               ELSE IF Len(a) < Len(b) THEN output.value = -1
               ELSE IF Len(a) > Len(b) THEN output.value = 1
               ELSE output.value = 0
            /\ \A k \in 1 .. Len(calls) : calls[k] < shorter
    /\ op = "sortArrays" => output = Sorted(orderedArrays)

C10_Witness ==
    /\ op = "arrayComparer"
    /\ input.a = Arr(<<Num(1)>>)
    /\ input.b = Arr(<<Num(1), Num(2)>>)
    /\ input.itemComparer[<<Num(1), Num(1)>>] = 0
    /\ calls = <<0>>
    /\ output.value = -1

(***************************************************************************)
(* C11: compareStringNatural(a, b) is arrayComparer(compareNumberOrString) *)
(* on the token sequences of a and b: the maximal runs of digits (as       *)
(* integers) and of non-digits (as text), in order, covering the string.   *)
(* "a2" sorts before "a10", "1a" before "a1" and "1" before "1a"; a stable *)
(* sort of any rotation of the ordered test list returns that list.        *)
(***************************************************************************)
\* the positions a token starts at: the first character, and every
\* character that is a digit when the one before it is not, or the reverse
TokenStarts(chars) ==
    {i \in 1 .. Len(chars) :
        i = 1 \/ IsDigit(chars[i]) # IsDigit(chars[i - 1])}

\* the last character of the token that starts at i
TokenEnd(chars, i) ==
    LET later == {j \in TokenStarts(chars) : j > i}
    IN  IF later = {}
        THEN Len(chars)
        ELSE (CHOOSE j \in later : \A k \in later : j <= k) - 1

RECURSIVE Power10(_)
Power10(n) == IF n = 0 THEN 1 ELSE 10 * Power10(n - 1)

\* the integer a run of digits writes
RECURSIVE DecimalValue(_, _)
DecimalValue(run, i) ==
    IF i > Len(run)
    THEN 0
    ELSE DigitValue(run[i]) * Power10(Len(run) - i) + DecimalValue(run, i + 1)

TokenSequence(value) ==
    LET chars == value.s
        starts == TokenStarts(chars)
        start(k) == CHOOSE i \in starts :
                        Cardinality({j \in starts : j < i}) = k - 1
        token(k) == LET run == SubSeq(chars, start(k),
                                      TokenEnd(chars, start(k)))
                    IN  IF IsDigit(run[1])
                        THEN Num(DecimalValue(run, 1))
                        ELSE Str(run)
    IN  Arr([k \in 1 .. Cardinality(starts) |-> token(k)])

NaturalExample(a, b) ==
    op = "compareStringNatural" /\ input.a = Str(a) /\ input.b = Str(b)

C11_NaturalTokenOrder ==
    /\ op = "compareStringNatural" =>
           output = Returns(arrayComparer(compareNumberOrString)[
                                <<TokenSequence(input.a),
                                  TokenSequence(input.b)>>])
    /\ NaturalExample(<<"a", "2">>, <<"a", "1", "0">>) => output.value = -1
    /\ NaturalExample(<<"1", "a">>, <<"a", "1">>) => output.value = -1
    /\ NaturalExample(<<"1">>, <<"1", "a">>) => output.value = -1
    /\ op = "sortNatural" => output = Sorted(orderedNaturalItems)

C11_Witness ==
    /\ NaturalExample(<<"a", "2">>, <<"a", "1", "0">>)
    /\ output.value = -1

(***************************************************************************)
(* C12: permutation invariance: for compareNumber, compareFiniteNumber,    *)
(* compareNullableFirst, nullableFirstComparer(compareNumber),             *)
(* orderComparer(ordering), groupComparer(...),                            *)
(* arrayComparer(compareNumber) and compareStringNatural and every         *)
(* bounded multiset of inputs, a stable sort of any permutation of the     *)
(* multiset produces the identical output sequence.                        *)
(***************************************************************************)
PermutationComparers ==
    {"compareNumber", "compareFiniteNumber", "compareNullableFirst",
     "nullableFirstComparer(compareNumber)", "orderComparer(order)",
     "groupCompare", "arrayComparer(compareNumber)", "compareStringNatural"}

\* a permutation of sorted items has been sorted with a listed comparer
PermutationSorted ==
    op = "toSortedPermutation" /\ input.by \in PermutationComparers

C12_PermutationInvariance ==
    PermutationSorted => output = Sorted(input.first)

\* the comparer of the sort returns 0 for no two different items
NoTiedItems ==
    \A i \in DOMAIN input.items, j \in DOMAIN input.items :
        input.items[i] # input.items[j] =>
            ComparerOf(input.by, input)[<<input.items[i], input.items[j]>>] # 0

\* C12 as amended: the output is the same for every permutation of a
\* multiset in which the comparer returns 0 only for identical values
C12_PermutationInvarianceWithoutTies ==
    PermutationSorted /\ NoTiedItems => output = Sorted(input.first)

C12_Witness ==
    /\ PermutationSorted
    /\ input.by = "compareNumber"
    /\ input.items = <<Num(2), NaN, Num(1)>>
    /\ input.first = <<NaN, Num(1), Num(2)>>
    /\ output = Sorted(input.first)

(***************************************************************************)
(* C13: totality and range: every comparer the library exports, or builds  *)
(* with a combinator from argument comparers that return only -1, 0 or 1,  *)
(* returns exactly one of -1, 0, 1 for all a and b of its domain; there is *)
(* no fourth outcome.                                                      *)
(***************************************************************************)
\* a comparer has been called on a and b of its domain
ComparerCalled ==
    \/ op \in PlainComparers \cup ChainsOfEqual
    \/ op \in {"compareString", "compareDate",
                "invertComparer(invertComparer(comparer))"}
    \/ op = "groupComparer" /\ GroupKeysHaveEntries

C13_TotalityAndRange ==
    ComparerCalled => output \in {Returns(result) : result \in CompareResult}

C13_Witness ==
    /\ op = "compareFiniteNumber"
    /\ input.a = Num(MaxNum)
    /\ input.b = Num(-MaxNum)
    /\ output = Returns(1)

(***************************************************************************)
(* C14: invertComparer(c)(a, b) = c(b, a) for all a and b, so              *)
(* invertComparer(invertComparer(c)) returns what c returns on every pair  *)
(* and a stable sort by it yields the order of a stable sort by c, for     *)
(* every input sequence.                                                   *)
(***************************************************************************)
C14_InvertInvolution ==
    /\ op = "invertComparer" =>
           output = Returns(input.comparer[<<input.b, input.a>>])
    /\ op = "invertComparer(invertComparer(comparer))" =>
           output = Returns(input.comparer[<<input.a, input.b>>])
    /\ op = "toSortedInvertTwice" =>
           output = Sorted(toSortedBy(input.algorithm, input.items,
                                      input.comparer))

C14_Witness ==
    /\ op = "toSortedInvertTwice"
    /\ input.comparer[<<Num(1), Num(2)>>] = 1
    /\ input.items = <<Num(1), Num(2), Num(1)>>
    /\ output = Sorted(<<Num(2), Num(1), Num(1)>>)

(***************************************************************************)
(* C15: chain identity: chainComparers() and chainComparers(compareEqual)  *)
(* return 0 for every pair, so a stable sort with either leaves every      *)
(* input sequence unchanged; chainComparers(compareEqual, c) and           *)
(* chainComparers(c, compareEqual) return what c returns on every pair.    *)
(***************************************************************************)
EmptyChains == {"chainComparers()", "chainComparers(compareEqual)"}

C15_ChainIdentity ==
    /\ op \in EmptyChains => output = Returns(0)
    /\ op \in ChainsOfEqual \ EmptyChains =>
           output = Returns(input.comparer[<<input.a, input.b>>])
    /\ (op \in {"toSorted", "toSortedAgain"} /\ input.by \in EmptyChains) =>
           output = Sorted(input.items)

C15_Witness ==
    /\ op = "toSorted"
    /\ input.by = "chainComparers(compareEqual)"
    /\ input.items = <<Num(2), Num(1), Num(2)>>
    /\ output = Sorted(input.items)

TransitiveOnItems ==
    LET compare == ComparerOf(input.by, input)
        values == {input.items[i] : i \in DOMAIN input.items}
    IN  \A a \in values, b \in values, c \in values :
            compare[<<a, b>>] <= 0 /\ compare[<<b, c>>] <= 0 =>
                compare[<<a, c>>] <= 0

ValidDate(date) == date.time # NaN

DateOrder(a, b) ==
    IF ValidDate(a) /\ ValidDate(b)
    THEN IF a.time.n < b.time.n THEN -1
         ELSE IF a.time.n > b.time.n THEN 1
         ELSE 0
    ELSE 0

C17_CompareDateByTime ==
    op = "compareDate" =>
        /\ output = Returns(compareFiniteNumber[<<input.a.time, input.b.time>>])
        /\ output = Returns(DateOrder(input.a, input.b))

C17_Witness ==
    /\ op = "compareDate"
    /\ ~ValidDate(input.a)
    /\ input.b = NewDate(Num(1))
    /\ output = Returns(0)

(***************************************************************************)
(* C18: groupComparer with a classifier key that has no entry in           *)
(* compareFns: every comparison of a and b in which keyFn(a) has no entry  *)
(* ends in a missing-entry failure that reaches the caller; it never       *)
(* returns -1, 0 or 1 as a silent fallback.                                *)
(***************************************************************************)
\* groupComparer has been called on an a whose key has no entry
MissingEntry ==
    op = "groupComparer" /\ input.keyFn[input.a] \notin DOMAIN input.compareFns

C18_MissingEntryFails == MissingEntry => output = TypeError

\* C18 as amended: the comparison fails when keyCompareFn returns 0 for the
\* two keys, and returns keyCompareFn's result when that is not 0
C18_MissingEntryFailsAtLookup ==
    MissingEntry =>
        LET keyResult == input.keyCompareFn[<<input.keyFn[input.a],
                                              input.keyFn[input.b]>>]
        IN  output = IF keyResult = 0 THEN TypeError ELSE Returns(keyResult)

C18_Witness ==
    /\ MissingEntry
    /\ input.keyFn[input.a] = input.keyFn[input.b]
    /\ output = TypeError

(***************************************************************************)
(* C19: compareNumber is a total preorder on all numbers, NaN and both     *)
(* infinities included: a before-or-tied b and b before-or-tied c give a   *)
(* before-or-tied c, and a tied with b and b tied with c give a tied with  *)
(* c; compareFiniteNumber alone is not: it returns 0 for 1 and NaN and for *)
(* NaN and 2, but -1 for 1 and 2.                                          *)
(***************************************************************************)
ComparedTransitively(by) == op = "compareTransitively" /\ input.by = by

C19_CompareNumberPreorder ==
    /\ ComparedTransitively("compareNumber") =>
           /\ output.ab \in CompareResult
           /\ output.ab <= 0 /\ output.bc <= 0 => output.ac <= 0
           /\ output.ab = 0 /\ output.bc = 0 => output.ac = 0
    /\ (/\ ComparedTransitively("compareFiniteNumber")
        /\ input.a = Num(1)
        /\ input.b = NaN
        /\ input.c = Num(2)) =>
           output = [ab |-> 0, bc |-> 0, ac |-> -1]

C19_Witness ==
    /\ ComparedTransitively("compareNumber")
    /\ input.a = NaN
    /\ input.b = Num(1)
    /\ input.c = Num(2)
    /\ output = [ab |-> -1, bc |-> -1, ac |-> -1]

====
